---- MODULE Spec2Model ----
(***************************************************************************)
(* Ant Colony Optimization solver of src/aco.py (class ACO).               *)
(*                                                                         *)
(* The graph is a directed weighted graph on the nodes 1..n_cities; its    *)
(* edge weights are natural numbers, so every route distance is a natural  *)
(* number or infinity.  Pheromone values are exact rationals <<num, den>>  *)
(* (floating-point rounding is not modelled).  Python exceptions are       *)
(* modelled by the variable err: once err # "none" the run has stopped at  *)
(* the program point held by pc.                                           *)
(***************************************************************************)
EXTENDS Integers, Sequences, FiniteSets, TLC

\* ------------------------------------------------------------------ bounds
MaxNodes == 2
MaxEdges == 3
MaxAnts == 2
MaxIterations == 2
MaxSeeds == 2
TourMaxNodes == 3
TourMaxEdges == 3
TourMaxAnts == 2

\* ------------------------------------------------------- program constants
\* float('inf'): a distance larger than every number
Inf == -1
\* has_edge(u, v) is False
NoEdge == -2
\* default exponents of ACO.__init__
Alpha == 1
Beta == 2
\* pherm_rate of the seeding call and the default pherm_rate
SeedRate == 10
DefaultRate == 1

\* edge weights the graphs are drawn from, and the evaporation rates
Weights == {0, 1, 24}
TourWeights == {0, 1}
Evaporations == {<<1, 2>>, <<1, 1>>}

\* ---------------------------------------------------------------- numbers
RECURSIVE GCD(_, _)
GCD(a, b) ==
    IF b = 0 THEN a ELSE GCD(b, a % b)

Abs(x) ==
    IF x < 0 THEN -x ELSE x

\* the rational n/d in lowest terms, d > 0
Rat(n, d) ==
    LET g == GCD(Abs(n), d) IN <<n \div g, d \div g>>

RZero == <<0, 1>>
ROne == <<1, 1>>

RAdd(x, y) ==
    LET g == GCD(x[2], y[2])
    IN Rat(x[1] * (y[2] \div g) + y[1] * (x[2] \div g), (x[2] \div g) * y[2])

RMul(x, y) ==
    LET g1 == GCD(Abs(x[1]), y[2])
        g2 == GCD(Abs(y[1]), x[2])
    IN Rat((x[1] \div g1) * (y[1] \div g2), (x[2] \div g2) * (y[2] \div g1))

\* x / y for y > 0
RDiv(x, y) ==
    RMul(x, <<y[2], y[1]>>)

RECURSIVE RPow(_, _)
RPow(x, k) ==
    IF k = 0 THEN ROne ELSE RMul(x, RPow(x, k - 1))

RLt(x, y) ==
    x[1] * y[2] < y[1] * x[2]

\* a < b on distances, float('inf') included
Lt(a, b) ==
    a # Inf /\ (b = Inf \/ a < b)

Leq(a, b) ==
    ~Lt(b, a)

\* ------------------------------------------------------------------ state
VARIABLES
    n_cities,        \* node_list is 1..n_cities
    cities,          \* [<<u, v>> -> weight or NoEdge]
    n_ants,
    evaporation,
    iterations,      \* argument of construct_solution / run_aco
    routes,          \* argument of construct_solution (<<>> when absent)
    via_run_aco,     \* TRUE when construct_solution is called by run_aco
    pheromone,       \* [<<u, v>> -> rational]
    best_routes,
    best_distances,
    best_acos,
    avg_acos,
    it,              \* iterations completed
    ant,             \* ants completed in the current iteration
    k,               \* seeded routes processed
    pc,
    err,
    unvisited,
    current,
    route,
    steps,           \* passes of the while loop of ant_tour made by this tour
    spliced,         \* whether this tour appended a shortest path
    result           \* what run_aco returned

vars ==
    <<n_cities, cities, n_ants, evaporation, iterations, routes, via_run_aco,
      pheromone, best_routes, best_distances, best_acos, avg_acos, it, ant, k,
      pc, err, unvisited, current, route, steps, spliced, result>>

config == <<n_cities, cities, n_ants, evaporation, iterations, routes, via_run_aco>>
tour == <<unvisited, current, route, steps, spliced>>
archive == <<best_routes, best_distances>>
history == <<best_acos, avg_acos>>

Nodes == 1..n_cities

has_edge(u, v) ==
    cities[<<u, v>>] # NoEdge

\* a variant that takes every other node for an out-neighbor
neighbors_complete(u) ==
    Nodes \ {u}

neighbors(u) ==
    {v \in Nodes : has_edge(u, v)}

\* ----------------------------------------------------------- route_distance
RECURSIVE route_distance_from(_, _, _)
route_distance_from(r, i, distance) ==
    IF i > Len(r) - 1 THEN distance
    ELSE IF has_edge(r[i], r[i + 1])
         THEN route_distance_from(r, i + 1, distance + cities[<<r[i], r[i + 1]>>])
         ELSE Inf

route_distance(r) ==
    route_distance_from(r, 1, 0)

\* -------------------------------------------------- calculate_probabilities
\* line 92 divides by the distance of the edge current -> city
calculate_raises(cur, possible_next) ==
    \E city \in possible_next : route_distance(<<cur, city>>) = 0

attraction(cur, city) ==
    LET distance == route_distance(<<cur, city>>)
        heuristic == IF distance = Inf THEN RZero ELSE RPow(Rat(1, distance), Beta)
    IN RMul(RPow(pheromone[<<cur, city>>], Alpha), heuristic)

RECURSIVE total_attraction(_, _)
total_attraction(cur, S) ==
    IF S = {} THEN RZero
    ELSE LET city == CHOOSE c \in S : TRUE
         IN RAdd(attraction(cur, city), total_attraction(cur, S \ {city}))

\* the probability of each member of possible_next; the empty function is []
calculate_probabilities(cur, possible_next) ==
    IF possible_next = {} THEN <<>>
    ELSE LET total == total_attraction(cur, possible_next)
         IN IF total = RZero
            THEN [city \in possible_next |-> Rat(1, Cardinality(possible_next))]
            ELSE [city \in possible_next |-> RDiv(attraction(cur, city), total)]

\* ------------------------------------------------------- nx.shortest_path
simple_paths(u, v) ==
    {p \in UNION {[1..m -> Nodes] : m \in 2..n_cities} :
        /\ p[1] = u
        /\ p[Len(p)] = v
        /\ \A i, j \in 1..Len(p) : i # j => p[i] # p[j]
        /\ \A i \in 1..(Len(p) - 1) : has_edge(p[i], p[i + 1])}

\* the paths Dijkstra's algorithm can return: the simple paths of least weight
shortest_paths(u, v) ==
    LET paths == simple_paths(u, v)
    IN {p \in paths : \A q \in paths : route_distance(p) <= route_distance(q)}

\* --------------------------------------------------------------- ant_tour
\* a variant that does not filter the neighbors by unvisited
possible_next_unfiltered(cur, unv) ==
    LET adjacent == neighbors(cur)
    IN IF adjacent = {} THEN unv ELSE adjacent

possible_next_of(cur, unv) ==
    LET adjacent == neighbors(cur) \cap unv
    IN IF adjacent = {} THEN unv ELSE adjacent

\* a variant that always takes the uniform choice among the neighbors
next_cities_among_neighbors(cur, unv) ==
    neighbors(cur)

\* the nodes lines 69-72 can pick
next_cities(cur, unv) ==
    LET possible_next == possible_next_of(cur, unv)
        probabilities == calculate_probabilities(cur, possible_next)
    IN IF DOMAIN probabilities = {}
       THEN neighbors(cur)
       ELSE {city \in possible_next : RLt(RZero, probabilities[city])}

\* ------------------------------------------------------ update_pheromones
evaporated(ph) ==
    [p \in DOMAIN ph |-> RMul(ph[p], evaporation)]

deposit_amount(pherm_rate, distance) ==
    IF distance = Inf THEN RZero ELSE Rat(pherm_rate, distance)

RECURSIVE deposit_from(_, _, _, _)
deposit_from(ph, r, i, amount) ==
    IF i > Len(r) THEN ph
    ELSE LET u == r[i]
             v == r[(i % Len(r)) + 1]
         IN IF has_edge(u, v)
            THEN deposit_from([ph EXCEPT ![<<u, v>>] = RAdd(@, amount)], r, i + 1, amount)
            ELSE deposit_from(ph, r, i + 1, amount)

\* line 110 divides by distance for every pair of the closed route that is an edge
update_raises(r, distance) ==
    /\ distance = 0
    /\ \E i \in 1..Len(r) : has_edge(r[i], r[(i % Len(r)) + 1])

\* a variant that deposits before it evaporates
update_pheromones_deposit_first(ph, r, distance, pherm_rate) ==
    IF r = <<>> THEN ph
    ELSE evaporated(deposit_from(ph, r, 1, deposit_amount(pherm_rate, distance)))

update_pheromones(ph, r, distance, pherm_rate) ==
    IF r = <<>> THEN ph
    ELSE deposit_from(evaporated(ph), r, 1, deposit_amount(pherm_rate, distance))

\* ------------------------------------------- the offer loop, lines 42-48
shift_in(s, i, x) ==
    SubSeq(s, 1, i - 1) \o <<x>> \o SubSeq(s, i, Len(s) - 1)

RECURSIVE offer_from(_, _, _, _, _)
offer_from(br, bd, i, r, distance) ==
    IF i > Len(bd) THEN <<br, bd>>
    ELSE IF Lt(distance, bd[i])
         THEN offer_from(shift_in(br, i, r), shift_in(bd, i, distance), i + 1, r, distance)
         ELSE offer_from(br, bd, i + 1, r, distance)

offer(br, bd, r, distance) ==
    offer_from(br, bd, 1, r, distance)

\* ------------------------------------------------- lines 52-53: min, mean
RECURSIVE min_from(_, _, _)
min_from(s, i, m) ==
    IF i > Len(s) THEN m
    ELSE min_from(s, i + 1, IF Lt(s[i], m) THEN s[i] ELSE m)

min_distance(s) ==
    min_from(s, 2, s[1])

RECURSIVE sum_from(_, _)
sum_from(s, i) ==
    IF i > Len(s) THEN 0 ELSE s[i] + sum_from(s, i + 1)

\* sum(s) / len(s); <<1, 0>> stands for an infinite mean
mean_distance(s) ==
    IF \E i \in 1..Len(s) : s[i] = Inf THEN <<1, 0>> ELSE Rat(sum_from(s, 1), Len(s))

\* ------------------------------------------------------------- the inputs
Pairs(n) ==
    (1..n) \X (1..n)

\* the pairs of distinct nodes
ProperPairs(n) ==
    {p \in Pairs(n) : p[1] # p[2]}

\* g is a graph on 1..n with at most max_edges edges, each one of the pairs
\* allowed and weighted from weights
IsGraph(g, n, allowed, max_edges, weights) ==
    \E E \in SUBSET allowed :
        /\ Cardinality(E) <= max_edges
        /\ \E w \in [E -> weights] : g = w @@ [p \in Pairs(n) |-> NoEdge]

RECURSIVE DistinctSeqs(_, _)
DistinctSeqs(S, len) ==
    IF len = 0 THEN {<<>>}
    ELSE {Append(s, x) : s \in DistinctSeqs(S, len - 1), x \in S}

\* the routes a caller seeds with: non-empty and without a repeated node
SeedRoutes(n) ==
    {r \in UNION {DistinctSeqs(1..n, len) : len \in 1..n} :
        \A i, j \in 1..Len(r) : i # j => r[i] # r[j]}

SeedLists(n) ==
    UNION {[1..len -> SeedRoutes(n)] : len \in 0..MaxSeeds}

\* ------------------------------------------------------------------- Init
\* nx.to_numpy_array(cities, weight=None): 1 where an edge exists, else 0
initial_pheromone(g, n) ==
    [p \in Pairs(n) |-> IF g[p] # NoEdge THEN ROne ELSE RZero]

InitLocals ==
    /\ best_routes = <<>>
    /\ best_distances = <<>>
    /\ best_acos = <<>>
    /\ avg_acos = <<>>
    /\ it = 0
    /\ ant = 0
    /\ k = 0
    /\ err = "none"
    /\ unvisited = {}
    /\ current = 0
    /\ route = <<>>
    /\ steps = 0
    /\ spliced = FALSE
    /\ result = <<>>

Init ==
    /\ n_cities \in 0..MaxNodes
    /\ IsGraph(cities, n_cities, Pairs(n_cities), MaxEdges, Weights)
    /\ n_ants \in 1..MaxAnts
    /\ evaporation \in Evaporations
    /\ iterations \in 0..MaxIterations
    /\ via_run_aco \in BOOLEAN
    /\ routes \in (IF via_run_aco THEN {<<>>} ELSE SeedLists(n_cities))
    /\ pheromone = initial_pheromone(cities, n_cities)
    /\ pc = "call"
    /\ InitLocals

\* ----------------------------------------------------- construct_solution
\* where the for loop of line 34 starts, or ends at once
loop_entry ==
    IF iterations = 0 THEN "returned" ELSE "ant"

\* lines 21-24 and the else branch of line 33
ConstructSolution ==
    /\ pc = "call"
    /\ err = "none"
    /\ best_acos' = <<>>
    /\ avg_acos' = <<>>
    /\ IF routes # <<>>
       THEN /\ best_routes' = routes
            /\ best_distances' = <<>>
            /\ pc' = "seed"
       ELSE /\ best_routes' = [i \in 1..n_ants |-> <<>>]
            /\ best_distances' = [i \in 1..n_ants |-> Inf]
            /\ pc' = loop_entry
    /\ UNCHANGED <<config, pheromone, it, ant, k, err, tour, result>>

\* lines 27-29 for one supplied route
SeedRoute ==
    /\ pc = "seed"
    /\ err = "none"
    /\ k < Len(routes)
    /\ LET prev_route == routes[k + 1]
           distance == route_distance(prev_route)
       IN /\ ~update_raises(prev_route, distance)
          /\ pheromone' = update_pheromones(pheromone, prev_route, distance, SeedRate)
          /\ best_distances' = Append(best_distances, distance)
    /\ k' = k + 1
    /\ UNCHANGED <<config, best_routes, history, it, ant, pc, err, tour, result>>

\* line 28 when update_pheromones divides by a zero distance
SeedRouteRaises ==
    /\ pc = "seed"
    /\ err = "none"
    /\ k < Len(routes)
    /\ update_raises(routes[k + 1], route_distance(routes[k + 1]))
    /\ pheromone' = evaporated(pheromone)
    /\ err' = "ZeroDivisionError"
    /\ UNCHANGED <<config, archive, history, it, ant, k, pc, tour, result>>

\* lines 30-31
SeedTruncate ==
    /\ pc = "seed"
    /\ err = "none"
    /\ k = Len(routes)
    /\ best_distances' = SubSeq(best_distances, 1, IF Len(best_distances) < n_ants THEN Len(best_distances) ELSE n_ants)
    /\ best_routes' = SubSeq(best_routes, 1, IF Len(best_routes) < n_ants THEN Len(best_routes) ELSE n_ants)
    /\ pc' = loop_entry
    /\ UNCHANGED <<config, pheromone, history, it, ant, k, err, tour, result>>

\* the end of one pass of the loop of line 36
ant_done ==
    IF ant + 1 = n_ants
    THEN pc' = "iter_end" /\ ant' = 0
    ELSE pc' = "ant" /\ ant' = ant + 1

\* lines 57-59 on a graph without nodes, then lines 38-39
AntTourEmpty ==
    /\ pc = "ant"
    /\ err = "none"
    /\ Nodes = {}
    /\ route' = <<>>
    /\ unvisited' = {}
    /\ ant_done
    /\ UNCHANGED <<config, pheromone, archive, history, it, k, err, current, steps, spliced, result>>

\* lines 57-62
AntTourStart ==
    /\ pc = "ant"
    /\ err = "none"
    /\ Nodes # {}
    /\ \E start \in Nodes :
        /\ current' = start
        /\ route' = <<start>>
        /\ unvisited' = Nodes \ {start}
    /\ steps' = 0
    /\ spliced' = FALSE
    /\ pc' = IF unvisited' = {} THEN "offer" ELSE "tour"
    /\ UNCHANGED <<config, pheromone, archive, history, it, ant, k, err, result>>

\* one pass of the while loop, lines 64-79
TourStep ==
    /\ pc = "tour"
    /\ err = "none"
    /\ ~calculate_raises(current, possible_next_of(current, unvisited))
    /\ \E next_city \in next_cities(current, unvisited) :
        /\ IF next_city \in neighbors(current)
           THEN /\ route' = Append(route, next_city)
                /\ spliced' = spliced
           ELSE /\ \E path \in shortest_paths(current, next_city) :
                    route' = route \o Tail(path)
                /\ spliced' = TRUE
        /\ unvisited' = unvisited \ {next_city}
        /\ current' = next_city
    /\ steps' = steps + 1
    /\ pc' = IF unvisited' = {} THEN "offer" ELSE "tour"
    /\ UNCHANGED <<config, pheromone, archive, history, it, ant, k, err, result>>

\* line 68 when calculate_probabilities divides by a zero edge weight
TourRaisesZeroDivision ==
    /\ pc = "tour"
    /\ err = "none"
    /\ calculate_raises(current, possible_next_of(current, unvisited))
    /\ err' = "ZeroDivisionError"
    /\ UNCHANGED <<config, pheromone, archive, history, it, ant, k, pc, tour, result>>

\* line 76 when no path leads from current to the node picked
TourRaisesNoPath ==
    /\ pc = "tour"
    /\ err = "none"
    /\ ~calculate_raises(current, possible_next_of(current, unvisited))
    /\ \E next_city \in next_cities(current, unvisited) :
        /\ next_city \notin neighbors(current)
        /\ shortest_paths(current, next_city) = {}
    /\ err' = "NetworkXNoPath"
    /\ UNCHANGED <<config, pheromone, archive, history, it, ant, k, pc, tour, result>>

\* lines 41-48
Offer ==
    /\ pc = "offer"
    /\ err = "none"
    /\ LET offered == offer(best_routes, best_distances, route, route_distance(route))
       IN /\ best_routes' = offered[1]
          /\ best_distances' = offered[2]
    /\ pc' = "update"
    /\ UNCHANGED <<config, pheromone, history, it, ant, k, err, tour, result>>

\* line 49
UpdatePheromones ==
    /\ pc = "update"
    /\ err = "none"
    /\ ~update_raises(route, route_distance(route))
    /\ pheromone' = update_pheromones(pheromone, route, route_distance(route), DefaultRate)
    /\ ant_done
    /\ UNCHANGED <<config, archive, history, it, k, err, tour, result>>

\* line 49 when update_pheromones divides by a zero distance
UpdatePheromonesRaises ==
    /\ pc = "update"
    /\ err = "none"
    /\ update_raises(route, route_distance(route))
    /\ pheromone' = evaporated(pheromone)
    /\ err' = "ZeroDivisionError"
    /\ UNCHANGED <<config, archive, history, it, ant, k, pc, tour, result>>

\* lines 50-53; the default update_callback changes nothing
IterEnd ==
    /\ pc = "iter_end"
    /\ err = "none"
    /\ best_acos' = Append(best_acos, min_distance(best_distances))
    /\ avg_acos' = Append(avg_acos, mean_distance(best_distances))
    /\ it' = it + 1
    /\ pc' = IF it + 1 = iterations THEN "returned" ELSE "ant"
    /\ UNCHANGED <<config, pheromone, archive, ant, k, err, tour, result>>

\* ---------------------------------------------------------------- run_aco
\* lines 126-129 and 132
RunAcoReturns ==
    /\ pc = "returned"
    /\ err = "none"
    /\ via_run_aco
    /\ Lt(best_distances[1], Inf)
    /\ result' = <<best_routes[1], best_distances[1]>>
    /\ pc' = "done"
    /\ UNCHANGED <<config, pheromone, archive, history, it, ant, k, err, tour>>

\* lines 130-131
RunAcoRaises ==
    /\ pc = "returned"
    /\ err = "none"
    /\ via_run_aco
    /\ ~Lt(best_distances[1], Inf)
    /\ err' = "route not found"
    /\ pc' = "done"
    /\ UNCHANGED <<config, pheromone, archive, history, it, ant, k, tour, result>>

Next ==
    \/ ConstructSolution
    \/ SeedRoute
    \/ SeedRouteRaises
    \/ SeedTruncate
    \/ AntTourEmpty
    \/ AntTourStart
    \/ TourStep
    \/ TourRaisesZeroDivision
    \/ TourRaisesNoPath
    \/ Offer
    \/ UpdatePheromones
    \/ UpdatePheromonesRaises
    \/ IterEnd
    \/ RunAcoReturns
    \/ RunAcoRaises

Spec ==
    Init /\ [][Next]_vars

\* ------------------------------------------ unseeded run_aco, larger graphs
\* run_aco(iterations=1) of a solver built with the default evaporation, on a
\* graph without self-loops.  There a returned route of distance 0 has a single
\* node and no pair of its closed route is an edge, so update_pheromones never
\* divides by zero and UpdatePheromonesRaises is not among the steps.
InitTour ==
    /\ n_cities \in 0..TourMaxNodes
    /\ IsGraph(cities, n_cities, ProperPairs(n_cities), TourMaxEdges, TourWeights)
    /\ n_ants \in 1..TourMaxAnts
    /\ evaporation = <<1, 2>>
    /\ iterations = 1
    /\ via_run_aco = TRUE
    /\ routes = <<>>
    /\ pheromone = initial_pheromone(cities, n_cities)
    /\ pc = "call"
    /\ InitLocals

NextTour ==
    \/ ConstructSolution
    \/ AntTourEmpty
    \/ AntTourStart
    \/ TourStep
    \/ TourRaisesZeroDivision
    \/ TourRaisesNoPath
    \/ Offer
    \/ UpdatePheromones
    \/ IterEnd
    \/ RunAcoReturns
    \/ RunAcoRaises

SpecTour ==
    InitTour /\ [][NextTour]_vars

\* ================================================================ claims
Sorted(bd) ==
    \A i \in 1..(Len(bd) - 1) : Leq(bd[i], bd[i + 1])

NoRepeat(r) ==
    \A i, j \in 1..Len(r) : i # j => r[i] # r[j]

\* the pairs update_pheromones visits for route r: consecutive and wrap-around
cycle_pair(r, i) ==
    <<r[i], r[(i % Len(r)) + 1]>>

\* ant_tour has returned a non-empty route and `route` still holds it
TourReturned ==
    /\ pc \in {"offer", "update", "iter_end", "returned", "done"}
    /\ n_cities >= 1

\* C1: after seeding and after each offer the Elite Archive has at most
\* n_ants entries and its distances are sorted ascending.
C1_ArchiveBoundedSorted ==
    pc \notin {"call", "seed"} =>
        /\ Len(best_distances) <= n_ants
        /\ Sorted(best_distances)

\* C2: the min sequence best_acos never increases from one iteration to the next.
C2_MinNonIncreasing ==
    \A i \in 2..Len(best_acos) : Leq(best_acos[i], best_acos[i - 1])

\* C3: every route ant_tour returns is empty or free of repeated nodes,
\* shortest-path splices included.
C3_NoRepeatedNode ==
    TourReturned => NoRepeat(route)

\* C3 as amended: a route ant_tour returns without having spliced in a
\* shortest path is free of repeated nodes.
C3_NoRepeatWithoutSplice ==
    (TourReturned /\ ~spliced) => NoRepeat(route)

C3_Witness ==
    /\ TourReturned
    /\ ~spliced
    /\ Len(route) = 3
    /\ NoRepeat(route)

\* C4: run_aco raises "route not found" exactly when the archive's best
\* distance is still infinite, and whenever a finite-distance route was
\* produced it returns, without error, the archive's first route with its
\* distance, the minimum of the final archive.
C4_RunAcoOutcome ==
    (via_run_aco /\ best_distances # <<>>) =>
        /\ err = "route not found" => ~Lt(best_distances[1], Inf)
        /\ (pc = "done" /\ ~Lt(best_distances[1], Inf)) => err = "route not found"
        /\ ((pc = "done" \/ err # "none") /\ Lt(best_distances[1], Inf)) =>
              /\ err = "none"
              /\ result = <<best_routes[1], best_distances[1]>>
              /\ best_distances[1] = min_distance(best_distances)

\* seeding is over and no ant has run yet
SeededBeforeAnts ==
    /\ routes # <<>>
    /\ pc \in {"ant", "returned"}
    /\ it = 0
    /\ ant = 0

\* C5: after seeding, every existing edge of the closed route of every seeded
\* route of finite positive distance has a pheromone entry above the seed value 1.
C5_SeedingRaisesEntries ==
    SeededBeforeAnts =>
        \A j \in 1..Len(routes) :
            (route_distance(routes[j]) # Inf /\ route_distance(routes[j]) > 0) =>
                \A i \in 1..Len(routes[j]) :
                    has_edge(cycle_pair(routes[j], i)[1], cycle_pair(routes[j], i)[2]) =>
                        RLt(ROne, pheromone[cycle_pair(routes[j], i)])

\* the archive with (r, distance) inserted once, at the first slot whose
\* distance exceeds it
single_insert(br, bd, r, distance) ==
    LET S == {i \in 1..Len(bd) : Lt(distance, bd[i])}
    IN IF S = {} THEN <<br, bd>>
       ELSE LET first == CHOOSE i \in S : \A j \in S : i <= j
            IN <<shift_in(br, first, r), shift_in(bd, first, distance)>>

\* C6: offering a route to a sorted archive is a single sorted insertion.
C6_SingleInsertion ==
    [][(pc = "offer" /\ pc' = "update" /\ Sorted(best_distances)) =>
          <<best_routes', best_distances'>> =
              single_insert(best_routes, best_distances, route, route_distance(route))]_vars

\* how often the closed route r passes over the pair p
cycle_count(r, p) ==
    Cardinality({i \in 1..Len(r) : cycle_pair(r, i) = p})

\* what an ant's route adds to the entry of pair p
route_deposit(r, p) ==
    IF has_edge(p[1], p[2]) /\ cycle_count(r, p) > 0 /\ route_distance(r) \notin {0, Inf}
    THEN Rat(cycle_count(r, p) * DefaultRate, route_distance(r))
    ELSE RZero

\* an ant's call of update_pheromones ran to its end
AntUpdateCompletes ==
    pc = "update" /\ err = "none" /\ err' = "none" /\ pc' # "update"

\* C7: for each ant the deposit is made first and the whole field, the new
\* deposit included, is then multiplied by the evaporation rate.
C7_DepositThenEvaporate ==
    [][AntUpdateCompletes =>
          \A p \in DOMAIN pheromone :
              pheromone'[p] = RMul(RAdd(pheromone[p], route_deposit(route, p)), evaporation)]_vars

\* C7 as amended: for each ant the whole field is first multiplied by the
\* evaporation rate and the deposit is added afterwards, so the new deposit is
\* not evaporated; this happens once per ant and nowhere else in the ant loop.
C7_EvaporateThenDeposit ==
    [][/\ AntUpdateCompletes =>
              \A p \in DOMAIN pheromone :
                  pheromone'[p] = RAdd(RMul(pheromone[p], evaporation), route_deposit(route, p))
       /\ pc \notin {"update", "seed"} => pheromone' = pheromone]_vars

C7_Witness ==
    /\ routes = <<>>
    /\ evaporation = <<1, 2>>
    /\ n_ants = 1
    /\ pc = "iter_end"
    /\ it = 0
    /\ Len(route) = 2
    /\ pheromone[<<route[1], route[2]>>] = RAdd(<<1, 2>>, Rat(DefaultRate, route_distance(route)))

\* C8: a call of update_pheromones with a non-empty route of distance 0 or
\* infinity, from the ant loop or from seeding, raises nothing and deposits
\* nothing (the field is evaporated only).
C8_DegenerateDistanceSkipsDeposit ==
    [][/\ (pc = "update" /\ err = "none" /\ route_distance(route) \in {0, Inf}) =>
              (err' = "none" /\ pheromone' = evaporated(pheromone))
       /\ (pc = "seed" /\ err = "none" /\ k < Len(routes)
             /\ route_distance(routes[k + 1]) \in {0, Inf}) =>
              (err' = "none" /\ pheromone' = evaporated(pheromone))]_vars

\* C9: while ant_tour builds a route its last element is the current node and
\* every consecutive pair is an edge; a returned route contains every node and
\* has a finite distance, and an unseeded run that got a route from an ant,
\* or that ended after at least one iteration on a non-empty graph, has a
\* finite best distance.
C9_RouteFollowsEdges ==
    /\ (pc = "tour" \/ TourReturned) =>
          /\ route[Len(route)] = current
          /\ \A i \in 1..(Len(route) - 1) : has_edge(route[i], route[i + 1])
    /\ TourReturned =>
          /\ \A v \in Nodes : \E i \in 1..Len(route) : route[i] = v
          /\ route_distance(route) # Inf
    /\ (routes = <<>> /\ n_cities >= 1 /\ iterations >= 1
          /\ pc \in {"update", "iter_end", "returned", "done"}) =>
          Lt(best_distances[1], Inf)

C9_Witness ==
    /\ pc = "done"
    /\ err = "none"
    /\ spliced
    /\ Len(route) = 4
    /\ result = <<route, route_distance(route)>>

====
